---- MODULE Spec2Model ----
(***************************************************************************)
(* The SVG group indexer (tools/svg_indexer.py): strip_ns, parse_svg,      *)
(* walk_svg_groups and main.                                               *)
(*                                                                         *)
(* A Python str is a sequence of one-character strings, so that            *)
(* startswith, split, replace, lower, "in" and sorted are computed the way *)
(* Python computes them.  Python's None and a raised IndexError are the    *)
(* one-element sequences None and IndexError, which no str equals.         *)
(***************************************************************************)
EXTENDS Integers, Sequences, FiniteSets, TLC

VARIABLES
    fn, arg, returned, ret,   \* a direct call of a pure function: its name,
                         \* its argument, whether it has returned, its result
    ppc,                 \* per document pipeline: where the pipeline stands
    path, side_hint,     \* per pipeline: the arguments of parse_svg
    file,                \* per pipeline: what the file system holds at path
    root, side_label,    \* per pipeline: what parse_svg returned
    stack,               \* per pipeline: the active calls of rec, innermost last
    elements, byId, class_to_ids, counts,   \* per pipeline: locals of walk_svg_groups
    result,              \* per pipeline: the dict walk_svg_groups returned
    exited, exit_code,   \* the process: has it ended, and with which status
    stderr, stdout,      \* the lines printed so far
    outfile              \* the file at OUTPUT_JSON

vars == <<fn, arg, returned, ret, ppc, path, side_hint, file, root, side_label, stack,
          elements, byId, class_to_ids, counts, result, exited, exit_code,
          stderr, stdout, outfile>>

pureVars == <<fn, arg, returned, ret>>
loadVars == <<path, side_hint, file, root, side_label>>
walkVars == <<stack, elements, byId, class_to_ids, counts, result>>
procVars == <<exited, exit_code, stderr, stdout, outfile>>

Pipes == DOMAIN ppc

----------------------------------------------------------------------------
(* Bounds of the model *)

MaxNodes == 3        \* nodes of a document walked under Spec
MaxTagLen == 4       \* characters of a tag handed to strip_ns under SpecStripNs
MaxClsLen == 4       \* characters of a class attribute under SpecClasses
MainMaxNodes == 2    \* nodes of a document under SpecLoad, SpecMain, SpecAnyOrder

----------------------------------------------------------------------------
(* Python values and str methods *)

None == <<"None">>
IndexError == <<"IndexError">>

SP == " "
NL == "\n"
TAB == "\t"
EmptyStr == <<>>

Truthy(x) == x # None /\ x # EmptyStr

\* a or b
Or(a, b) == IF Truthy(a) THEN a ELSE b

\* dict.get(key, default) on an attribute that is None when absent
attrib_get(a, default) == IF a = None THEN default ELSE a

\* ord(c), for the characters the model's strings are made of
ord(c) ==
    CASE c = TAB -> 9 [] c = NL -> 10 [] c = SP -> 32
      [] c = "A" -> 65 [] c = "B" -> 66
      [] c = "a" -> 97 [] c = "b" -> 98 [] c = "g" -> 103
      [] c = "n" -> 110 [] c = "r" -> 114
      [] c = "{" -> 123 [] c = "}" -> 125

\* s < t for two str: by code point, a proper prefix first
RECURSIVE StrLess(_, _)
StrLess(s, t) ==
    IF t = <<>> THEN FALSE
    ELSE IF s = <<>> THEN TRUE
    ELSE IF s[1] = t[1] THEN StrLess(Tail(s), Tail(t))
    ELSE ord(s[1]) < ord(t[1])

\* sorted(S) for a set of str
RECURSIVE sorted(_)
sorted(S) ==
    IF S = {} THEN <<>>
    ELSE LET m == CHOOSE x \in S : \A y \in S \ {x} : StrLess(x, y)
         IN  <<m>> \o sorted(S \ {m})

\* s.startswith(prefix)
startswith(s, prefix) ==
    Len(s) >= Len(prefix) /\ SubSeq(s, 1, Len(prefix)) = prefix

\* s.find(c) + 1 for a one-character c: the first position of c, 0 when absent
find(s, c) ==
    IF \E i \in 1..Len(s) : s[i] = c
    THEN CHOOSE i \in 1..Len(s) : s[i] = c /\ \A j \in 1..(i - 1) : s[j] # c
    ELSE 0

\* s.split(sep, 1)
split1(s, sep) ==
    LET i == find(s, sep)
    IN  IF i = 0 THEN <<s>>
        ELSE <<SubSeq(s, 1, i - 1), SubSeq(s, i + 1, Len(s))>>

\* s.split(sep)
RECURSIVE split(_, _)
split(s, sep) ==
    LET i == find(s, sep)
    IN  IF i = 0 THEN <<s>>
        ELSE <<SubSeq(s, 1, i - 1)>> \o split(SubSeq(s, i + 1, Len(s)), sep)

\* s.replace(old, new) for one-character old and new
replace(s, old, new) ==
    [i \in 1..Len(s) |-> IF s[i] = old THEN new ELSE s[i]]

\* list[k], k counted from 0
Index(list, k) == IF k + 1 <= Len(list) THEN list[k + 1] ELSE IndexError

\* all str over alphabet of length at most n
RECURSIVE StrUpTo(_, _)
StrUpTo(alphabet, n) ==
    IF n = 0 THEN {<<>>}
    ELSE LET shorter == StrUpTo(alphabet, n - 1)
         IN  shorter \cup {Append(s, c) : s \in shorter, c \in alphabet}

----------------------------------------------------------------------------
(* strip_ns *)

NSBRACE_START == <<"{">>

\* strip_ns that leaves the namespace prefix on
strip_ns_keeps_prefix(tag) == tag

strip_ns(tag) ==
    IF startswith(tag, NSBRACE_START)
    THEN Index(split1(tag, "}"), 1)
    ELSE tag

----------------------------------------------------------------------------
(* rec: the class list of a node *)

NonEmptyTokens(tokens) == SelectSeq(tokens, LAMBDA c : c # EmptyStr)

Classes(class_attr) ==
    LET cls_raw == Or(attrib_get(class_attr, EmptyStr), EmptyStr)
    IN  NonEmptyTokens(split(replace(cls_raw, NL, SP), SP))

----------------------------------------------------------------------------
(* Documents: what ET.parse returns.  A document is a sequence of nodes,   *)
(* node 1 the root; a node has its qualified tag, its id and class         *)
(* attributes (None when absent) and the list of its children.             *)

G == <<"g">>
NsG == <<"{", "n", "}", "g">>
R == <<"r">>
NsR == <<"{", "g", "}", "r">>

IdA == <<"A">>
IdB == <<"B">>

Node(tag, id, class) == [tag |-> tag, id |-> id, class |-> class]

NodeKinds ==
    { Node(G, IdA, None),
      Node(NsG, IdA, <<"b", SP, "a">>),
      Node(G, IdB, <<"a", SP, "a">>),
      Node(G, None, <<"a", NL, "b">>),
      Node(G, EmptyStr, <<SP, "b">>),
      Node(R, IdB, <<"a">>),
      Node(NsR, None, None) }

MainNodeKinds ==
    { Node(G, IdA, <<"a">>),
      Node(NsG, IdA, <<"b">>) }

\* the parent of every node (0 for the root) in a tree of n nodes
RECURSIVE ReachesRoot(_, _, _)
ReachesRoot(par, k, fuel) ==
    IF k = 1 THEN TRUE
    ELSE IF fuel = 0 THEN FALSE
    ELSE ReachesRoot(par, par[k], fuel - 1)

Shapes(n) ==
    { par \in [1..n -> 0..n] :
        /\ par[1] = 0
        /\ \A k \in 2..n : par[k] \in 1..n /\ par[k] # k
        /\ \A k \in 2..n : ReachesRoot(par, k, n) }

\* the members of a set of node numbers, ascending
RECURSIVE Ascending(_)
Ascending(S) ==
    IF S = {} THEN <<>>
    ELSE LET m == CHOOSE x \in S : \A y \in S : x <= y
         IN  <<m>> \o Ascending(S \ {m})

MkDoc(n, par, kind) ==
    [k \in 1..n |->
        [tag |-> kind[k].tag, id |-> kind[k].id, class |-> kind[k].class,
         children |-> Ascending({j \in 1..n : par[j] = k})]]

DocsOfSize(n, kinds) ==
    { MkDoc(n, par, kind) : par \in Shapes(n), kind \in [1..n -> kinds] }

Docs(maxn, kinds) == UNION { DocsOfSize(n, kinds) : n \in 1..maxn }

FRONT == <<"f", "r", "o", "n", "t">>
BACK == <<"b", "a", "c", "k">>
Sides == {FRONT, BACK}

----------------------------------------------------------------------------
(* walk_svg_groups *)

GroupTag == <<"g">>

IsGroup(tag) == tag = GroupTag

\* the locals of a fresh call
NewElements == <<>>
NewById == [k \in {} |-> 0]
NewClassToIds == [k \in {} |-> {}]
NewCounts == [total |-> 0, groups |-> 0, with_id |-> 0, with_class |-> 0]

MakeInfo(el_id, classes, tag, parent_id, side) ==
    [id |-> el_id, classes |-> classes, tag |-> tag,
     parentId |-> parent_id, side |-> side]

\* byId[el_id] = info only for an id not seen before: the first one wins
ByIdAfter_first_wins(by, el_id, ref) ==
    IF Truthy(el_id) /\ el_id \notin DOMAIN by
    THEN [k \in DOMAIN by \cup {el_id} |-> IF k = el_id THEN ref ELSE by[k]]
    ELSE by

\* byId holds references: byId[id] is the position in elements of the info
\* dict it refers to
ByIdAfter(by, el_id, ref) ==
    IF Truthy(el_id)
    THEN [k \in DOMAIN by \cup {el_id} |-> IF k = el_id THEN ref ELSE by[k]]
    ELSE by

\* with_id counted by "el_id is not None": an empty id counts
CountsAfter_empty_id_counts(c, el_id, classes) ==
    [total |-> c.total + 1,
     groups |-> c.groups + 1,
     with_id |-> IF el_id # None THEN c.with_id + 1 ELSE c.with_id,
     with_class |-> IF classes # <<>> THEN c.with_class + 1 ELSE c.with_class]

CountsAfter(c, el_id, classes) ==
    [total |-> c.total + 1,
     groups |-> c.groups + 1,
     with_id |-> IF Truthy(el_id) THEN c.with_id + 1 ELSE c.with_id,
     with_class |-> IF classes # <<>> THEN c.with_class + 1 ELSE c.with_class]

SetOfTokens(classes) == {classes[i] : i \in 1..Len(classes)}

\* class_to_ids[c] = {el_id} in place of class_to_ids[c].add(el_id)
ClassToIdsAfter_overwrites(c2i, el_id, classes) ==
    IF classes # <<>> /\ Truthy(el_id)
    THEN [c \in DOMAIN c2i \cup SetOfTokens(classes) |->
            IF c \in SetOfTokens(classes) THEN {el_id} ELSE c2i[c]]
    ELSE c2i

ClassToIdsAfter(c2i, el_id, classes) ==
    IF classes # <<>> /\ Truthy(el_id)
    THEN [c \in DOMAIN c2i \cup SetOfTokens(classes) |->
            IF c \in SetOfTokens(classes)
            THEN (IF c \in DOMAIN c2i THEN c2i[c] ELSE {}) \cup {el_id}
            ELSE c2i[c]]
    ELSE c2i

\* rec(child, el_id): the inherited parent_id is dropped
ChildParentId_own_id_only(el_id, parent_id) == el_id

\* what the recursive call on a child gets as parent_id
ChildParentId(el_id, parent_id) == Or(el_id, parent_id)

\* the dict built from class_to_ids on return, as its items in order
ClassToIdsJson(c2i) ==
    LET keys == sorted(DOMAIN c2i)
    IN  [i \in 1..Len(keys) |-> [key |-> keys[i], ids |-> sorted(c2i[keys[i]])]]

\* The locals of walk_svg_groups as one value
Locals(p) ==
    [elements |-> elements[p], byId |-> byId[p],
     class_to_ids |-> class_to_ids[p], counts |-> counts[p]]

\* the accumulators live at module level: a later call finds what an
\* earlier call of another pipeline left in them
NewLocals_shared ==
    LET started == {q \in Pipes : ppc[q] \notin {"parse", "walk"}}
    IN  IF started = {}
        THEN [elements |-> NewElements, byId |-> NewById,
              class_to_ids |-> NewClassToIds, counts |-> NewCounts]
        ELSE Locals(CHOOSE q \in started : TRUE)

NewLocals ==
    [elements |-> NewElements, byId |-> NewById,
     class_to_ids |-> NewClassToIds, counts |-> NewCounts]

\* The body of rec before its loop, on a node with locals w: the locals after
Record(w, node, tag, parent_id, side) ==
    LET el_id == node.id
        classes == Classes(node.class)
        info == MakeInfo(el_id, classes, tag, parent_id, side)
    IN  IF IsGroup(tag)
        THEN [elements |-> Append(w.elements, info),
              byId |-> ByIdAfter(w.byId, el_id, Len(w.elements) + 1),
              class_to_ids |-> ClassToIdsAfter(w.class_to_ids, el_id, classes),
              counts |-> CountsAfter(w.counts, el_id, classes)]
        ELSE w

\* A call rec(el, parent_id) of pipeline p, up to its loop; callers is the
\* stack of the calls below it and w the locals it finds
Rec(p, callers, w, el, parent_id) ==
    LET node == root[p][el]
        tag == strip_ns(node.tag)
        after == Record(w, node, tag, parent_id, side_label[p])
    IN  IF tag = IndexError
        THEN /\ ppc' = [ppc EXCEPT ![p] = "raised"]
             /\ stack' = [stack EXCEPT ![p] = callers]
             /\ elements' = [elements EXCEPT ![p] = w.elements]
             /\ byId' = [byId EXCEPT ![p] = w.byId]
             /\ class_to_ids' = [class_to_ids EXCEPT ![p] = w.class_to_ids]
             /\ counts' = [counts EXCEPT ![p] = w.counts]
        ELSE /\ ppc' = [ppc EXCEPT ![p] = "rec"]
             /\ stack' = [stack EXCEPT ![p] =
                    Append(callers, [el |-> el, parent_id |-> parent_id, next |-> 1])]
             /\ elements' = [elements EXCEPT ![p] = after.elements]
             /\ byId' = [byId EXCEPT ![p] = after.byId]
             /\ class_to_ids' = [class_to_ids EXCEPT ![p] = after.class_to_ids]
             /\ counts' = [counts EXCEPT ![p] = after.counts]

\* walk_svg_groups up to the first call: fresh locals, then rec(root, None)
WalkStart(p) ==
    /\ ~exited
    /\ ppc[p] = "walk"
    /\ Rec(p, <<>>, NewLocals, 1, None)
    /\ UNCHANGED <<pureVars, loadVars, result, procVars>>

\* One turn of the loop of the innermost call: rec(child, el_id or parent_id)
RecChild(p) ==
    /\ ~exited
    /\ ppc[p] = "rec"
    /\ LET depth == Len(stack[p])
           top == stack[p][depth]
           node == root[p][top.el]
       IN  /\ top.next <= Len(node.children)
           /\ Rec(p, [stack[p] EXCEPT ![depth].next = top.next + 1], Locals(p),
                  node.children[top.next], ChildParentId(node.id, top.parent_id))
    /\ UNCHANGED <<pureVars, loadVars, result, procVars>>

\* The loop of the innermost call is over: the call returns
RecReturn(p) ==
    /\ ~exited
    /\ ppc[p] = "rec"
    /\ LET depth == Len(stack[p])
           top == stack[p][depth]
       IN  /\ top.next > Len(root[p][top.el].children)
           /\ stack' = [stack EXCEPT ![p] = SubSeq(@, 1, depth - 1)]
           /\ ppc' = [ppc EXCEPT ![p] = IF depth = 1 THEN "finalize" ELSE "rec"]
    /\ UNCHANGED <<pureVars, loadVars, elements, byId, class_to_ids, counts,
                   result, procVars>>

\* The sets become sorted lists and the index is returned
Finalize(p) ==
    /\ ~exited
    /\ ppc[p] = "finalize"
    /\ result' = [result EXCEPT ![p] =
           [elements |-> elements[p], byId |-> byId[p],
            classToIds |-> ClassToIdsJson(class_to_ids[p]), counts |-> counts[p]]]
    /\ ppc' = [ppc EXCEPT ![p] = "indexed"]
    /\ UNCHANGED <<pureVars, loadVars, stack, elements, byId, class_to_ids,
                   counts, procVars>>

NoResult ==
    [elements |-> <<>>, byId |-> NewById, classToIds |-> <<>>, counts |-> NewCounts]

----------------------------------------------------------------------------
(* parse_svg *)

UpperCase ==
    <<"A", "B", "C", "D", "E", "F", "G", "H", "I", "J", "K", "L", "M",
      "N", "O", "P", "Q", "R", "S", "T", "U", "V", "W", "X", "Y", "Z">>
LowerCase ==
    <<"a", "b", "c", "d", "e", "f", "g", "h", "i", "j", "k", "l", "m",
      "n", "o", "p", "q", "r", "s", "t", "u", "v", "w", "x", "y", "z">>

\* s.lower()
lower(s) ==
    [i \in 1..Len(s) |->
        IF \E k \in 1..Len(UpperCase) : UpperCase[k] = s[i]
        THEN LowerCase[CHOOSE k \in 1..Len(UpperCase) : UpperCase[k] = s[i]]
        ELSE s[i]]

\* sub in s
contains(s, sub) ==
    \E i \in 1..(Len(s) - Len(sub) + 1) : SubSeq(s, i, i + Len(sub) - 1) = sub

\* os.path.basename(path): what follows the last slash
basename(p_path) ==
    LET slashes == {i \in 1..Len(p_path) : p_path[i] = "/"}
        last == IF slashes = {} THEN 0
                ELSE CHOOSE i \in slashes : \A j \in slashes : j <= i
    IN  SubSeq(p_path, last + 1, Len(p_path))

POSTERIOR ==
    <<"p", "o", "s", "t", "e", "r", "i", "o", "r">>

\* name tested on the whole path, directories included
ResolveSide_whole_path(p_path, hint) ==
    LET name == lower(p_path)
    IN  IF Truthy(hint) THEN hint
        ELSE IF contains(name, BACK) \/ contains(name, POSTERIOR) THEN BACK
        ELSE FRONT

\* The side parse_svg returns for a path and a hint
ResolveSide(p_path, hint) ==
    LET name == lower(basename(p_path))
    IN  IF Truthy(hint) THEN hint
        ELSE IF contains(name, BACK) \/ contains(name, POSTERIOR) THEN BACK
        ELSE FRONT

NotFound(p_path) == [kind |-> "file not found", path |-> p_path]
ParseFailed(p_path) == [kind |-> "failed to parse", path |-> p_path]

NoDiagnostic == [kind |-> "none", path |-> EmptyStr]

\* What parse_svg prints before sys.exit(2); NoDiagnostic when it returns
ParseDiagnostic(f, p_path) ==
    IF f.state = "missing" THEN NotFound(p_path)
    ELSE IF f.state = "malformed" THEN ParseFailed(p_path)
    ELSE NoDiagnostic

NoDoc == <<>>

ParseSvg(p) ==
    /\ ~exited
    /\ ppc[p] = "parse"
    /\ IF ParseDiagnostic(file[p], path[p]) # NoDiagnostic
       THEN /\ stderr' = Append(stderr, ParseDiagnostic(file[p], path[p]))
            /\ exited' = TRUE
            /\ exit_code' = 2
            /\ UNCHANGED <<ppc, root, side_label>>
       ELSE /\ root' = [root EXCEPT ![p] = file[p].doc]
            /\ side_label' = [side_label EXCEPT ![p] = ResolveSide(path[p], side_hint[p])]
            /\ ppc' = [ppc EXCEPT ![p] = "walk"]
            /\ UNCHANGED <<stderr, exited, exit_code>>
    /\ UNCHANGED <<pureVars, path, side_hint, file, walkVars, stdout, outfile>>

----------------------------------------------------------------------------
(* main *)

FRONT_SVG ==
    <<"/", "U", "s", "e", "r", "s", "/", "d", "i", "m", "i", "t", "a", "r",
    "m", "i", "h", "a", "y", "l", "o", "v", "/", "d", "e", "v", "/", "W",
    "R", "K", "T", "/", "t", "o", "r", "s", "o", ".", "s", "v", "g">>
BACK_SVG ==
    <<"/", "U", "s", "e", "r", "s", "/", "d", "i", "m", "i", "t", "a", "r",
    "m", "i", "h", "a", "y", "l", "o", "v", "/", "d", "e", "v", "/", "W",
    "R", "K", "T", "/", "t", "o", "r", "s", "o", "_", "b", "a", "c", "k",
    ".", "s", "v", "g">>

\* The order of main: both documents are parsed, front first, then both are
\* walked, front first
MainTurn(p) ==
    IF p = "front"
    THEN ppc["front"] = "parse" \/ ppc["back"] # "parse"
    ELSE IF ppc["back"] = "parse" THEN ppc["front"] = "walk"
         ELSE ppc["front"] = "indexed"

\* the output is written as soon as the front index is there
BothIndexed_front_only == ppc["front"] = "indexed"

\* main has both indices in hand
BothIndexed == \A p \in {"front", "back"} : ppc[p] = "indexed"

Combined == [front |-> result["front"], back |-> result["back"]]

Summary ==
    <<[line |-> "Wrote", value |-> {}],
      [line |-> "front counts", value |-> {result["front"].counts}],
      [line |-> "back counts", value |-> {result["back"].counts}],
      [line |-> "front ids", value |-> DOMAIN result["front"].byId],
      [line |-> "front classes",
       value |-> {result["front"].classToIds[i].key :
                    i \in 1..Len(result["front"].classToIds)}]>>

\* The rest of main: the combined index is written and the summary printed
WriteOutput ==
    /\ ~exited
    /\ BothIndexed
    /\ outfile' = [state |-> "written", data |-> {Combined}]
    /\ stdout' = stdout \o Summary
    /\ exited' = TRUE
    /\ exit_code' = 0
    /\ UNCHANGED <<pureVars, ppc, loadVars, walkVars, stderr>>

\* makedirs, open or json.dump raises OSError: the file is left as it was
\* (makedirs, open) or cut short (dump), and the traceback ends the process
WriteFails ==
    /\ ~exited
    /\ BothIndexed
    /\ \E cut \in BOOLEAN :
          outfile' = IF cut THEN [state |-> "truncated", data |-> {}] ELSE outfile
    /\ stderr' = Append(stderr, [kind |-> "OSError", path |-> <<>>])
    /\ exited' = TRUE
    /\ exit_code' = 1
    /\ UNCHANGED <<pureVars, ppc, loadVars, walkVars, stdout>>

----------------------------------------------------------------------------
(* Direct calls of the pure functions *)

CallStripNs ==
    /\ fn = "strip_ns"
    /\ ~returned
    /\ returned' = TRUE
    /\ ret' = strip_ns(arg)
    /\ UNCHANGED <<fn, arg, ppc, loadVars, walkVars, procVars>>

CallClasses ==
    /\ fn = "classes"
    /\ ~returned
    /\ returned' = TRUE
    /\ ret' = Classes(arg)
    /\ UNCHANGED <<fn, arg, ppc, loadVars, walkVars, procVars>>

----------------------------------------------------------------------------
(* Specifications *)

NoPipes == <<>>

InitProcess ==
    /\ exited = FALSE
    /\ exit_code = 0
    /\ stderr = <<>>
    /\ stdout = <<>>

InitNoCall ==
    /\ fn = "none"
    /\ arg = None
    /\ returned = FALSE
    /\ ret = <<>>

InitPipes(P, first) ==
    /\ ppc = [p \in P |-> first]
    /\ stack = [p \in P |-> <<>>]
    /\ elements = [p \in P |-> NewElements]
    /\ byId = [p \in P |-> NewById]
    /\ class_to_ids = [p \in P |-> NewClassToIds]
    /\ counts = [p \in P |-> NewCounts]
    /\ result = [p \in P |-> NoResult]

OkFile(doc) == [state |-> "ok", doc |-> doc]
MissingFile == [state |-> "missing", doc |-> NoDoc]
MalformedFile == [state |-> "malformed", doc |-> NoDoc]

Files(docs) == {MissingFile, MalformedFile} \cup {OkFile(d) : d \in docs}

AbsentOutput == [state |-> "absent", data |-> {}]
OldOutput == [state |-> "old", data |-> {}]

\* walk_svg_groups(root, side_label) on one document
Init ==
    /\ InitNoCall
    /\ InitProcess
    /\ outfile = AbsentOutput
    /\ InitPipes({"doc"}, "walk")
    /\ path = [p \in {"doc"} |-> EmptyStr]
    /\ side_hint = [p \in {"doc"} |-> None]
    /\ root \in [{"doc"} -> Docs(MaxNodes, NodeKinds)]
    /\ file = [p \in {"doc"} |-> OkFile(root[p])]
    /\ side_label \in [{"doc"} -> Sides]

Next ==
    \/ \E p \in Pipes : WalkStart(p)
    \/ \E p \in Pipes : RecChild(p)
    \/ \E p \in Pipes : RecReturn(p)
    \/ \E p \in Pipes : Finalize(p)

Spec == Init /\ [][Next]_vars

\* main, in the order of its statements
InitMain ==
    /\ InitNoCall
    /\ InitProcess
    /\ outfile \in {AbsentOutput, OldOutput}
    /\ InitPipes({"front", "back"}, "parse")
    /\ path = [front |-> FRONT_SVG, back |-> BACK_SVG]
    /\ side_hint = [front |-> None, back |-> None]
    /\ file \in [{"front", "back"} -> Files(Docs(MainMaxNodes, MainNodeKinds))]
    /\ root = [p \in {"front", "back"} |-> NoDoc]
    /\ side_label = [p \in {"front", "back"} |-> None]

NextMain ==
    \/ \E p \in Pipes : MainTurn(p) /\ ParseSvg(p)
    \/ \E p \in Pipes : MainTurn(p) /\ WalkStart(p)
    \/ \E p \in Pipes : MainTurn(p) /\ RecChild(p)
    \/ \E p \in Pipes : MainTurn(p) /\ RecReturn(p)
    \/ \E p \in Pipes : MainTurn(p) /\ Finalize(p)
    \/ WriteOutput
    \/ WriteFails

SpecMain == InitMain /\ [][NextMain]_vars

\* The two pipelines of main in any order and interleaving
NextAnyOrder ==
    \/ \E p \in Pipes : ParseSvg(p)
    \/ \E p \in Pipes : WalkStart(p)
    \/ \E p \in Pipes : RecChild(p)
    \/ \E p \in Pipes : RecReturn(p)
    \/ \E p \in Pipes : Finalize(p)
    \/ WriteOutput
    \/ WriteFails

SpecAnyOrder == InitMain /\ [][NextAnyOrder]_vars

\* parse_svg(path, side_hint) on any path and hint, then walk_svg_groups
PathDirs ==
    { <<>>,
      <<"b", "a", "c", "k", "/">>,
      <<"/", "x", "/">> }

PathBases ==
    { <<"t", "o", "r", "s", "o", ".", "s", "v", "g">>,
      <<"t", "o", "r", "s", "o", "_", "b", "a", "c", "k", ".", "s", "v", "g">>,
      <<"T", "o", "r", "s", "o", "_", "B", "A", "C", "K", ".", "s", "v", "g">>,
      <<"p", "o", "s", "t", "e", "r", "i", "o", "r", ".", "s", "v", "g">>,
      <<"P", "O", "S", "T", "E", "R", "I", "O", "R">>,
      <<"b", "a", "c", "_", "k", ".", "s", "v", "g">>,
      <<"f", "r", "o", "n", "t", ".", "s", "v", "g">>,
      <<"b", "a", "c", "k", "f", "r", "o", "n", "t", ".", "s", "v", "g">>,
      <<"p", "o", "s", "t", "e", "r", "i", "o", ".", "s", "v", "g">>,
      <<"B", "a", "C", "k">> }

Paths == {dir \o base : dir \in PathDirs, base \in PathBases}

Hints == {None, FRONT, BACK, EmptyStr}

InitLoad ==
    /\ InitNoCall
    /\ InitProcess
    /\ outfile = AbsentOutput
    /\ InitPipes({"doc"}, "parse")
    /\ path \in [{"doc"} -> Paths]
    /\ side_hint \in [{"doc"} -> Hints]
    /\ file \in [{"doc"} -> Files(Docs(MainMaxNodes, MainNodeKinds))]
    /\ root = [p \in {"doc"} |-> NoDoc]
    /\ side_label = [p \in {"doc"} |-> None]

NextLoad ==
    \/ \E p \in Pipes : ParseSvg(p)
    \/ \E p \in Pipes : WalkStart(p)
    \/ \E p \in Pipes : RecChild(p)
    \/ \E p \in Pipes : RecReturn(p)
    \/ \E p \in Pipes : Finalize(p)

SpecLoad == InitLoad /\ [][NextLoad]_vars

\* strip_ns(tag) on any tag
InitStripNs ==
    /\ fn = "strip_ns"
    /\ arg \in StrUpTo({"{", "}", "g", "n"}, MaxTagLen)
    /\ returned = FALSE
    /\ ret = <<>>
    /\ InitProcess
    /\ outfile = AbsentOutput
    /\ InitPipes({}, "parse")
    /\ path = NoPipes /\ side_hint = NoPipes /\ file = NoPipes
    /\ root = NoPipes /\ side_label = NoPipes

SpecStripNs == InitStripNs /\ [][CallStripNs]_vars

\* the class list of any class attribute
InitClasses ==
    /\ fn = "classes"
    /\ arg \in {None} \cup StrUpTo({"a", "b", SP, NL, TAB}, MaxClsLen)
    /\ returned = FALSE
    /\ ret = <<>>
    /\ InitProcess
    /\ outfile = AbsentOutput
    /\ InitPipes({}, "parse")
    /\ path = NoPipes /\ side_hint = NoPipes /\ file = NoPipes
    /\ root = NoPipes /\ side_label = NoPipes

SpecClasses == InitClasses /\ [][CallClasses]_vars

----------------------------------------------------------------------------
(* What the index of a document is, stated on the document tree *)

\* The nodes of the subtree of n in depth-first pre-order
RECURSIVE PreOrder(_, _), PreOrderOfAll(_, _)
PreOrder(doc, n) == <<n>> \o PreOrderOfAll(doc, doc[n].children)
PreOrderOfAll(doc, list) ==
    IF list = <<>> THEN <<>>
    ELSE PreOrder(doc, Head(list)) \o PreOrderOfAll(doc, Tail(list))

\* The tag is g, or g behind a {namespace} prefix
HasGroupTag(tag) ==
    \/ tag = <<"g">>
    \/ /\ Len(tag) >= 3
       /\ tag[1] = "{"
       /\ \E i \in 2..Len(tag) :
             /\ tag[i] = "}"
             /\ \A j \in 1..(i - 1) : tag[j] # "}"
             /\ SubSeq(tag, i + 1, Len(tag)) = <<"g">>

GroupNodes(doc) ==
    SelectSeq(PreOrder(doc, 1), LAMBDA n : HasGroupTag(doc[n].tag))

HasId(x) == x.id # None /\ x.id # <<>>

ParentOf(doc, n) ==
    IF \E m \in DOMAIN doc : \E i \in DOMAIN doc[m].children : doc[m].children[i] = n
    THEN CHOOSE m \in DOMAIN doc : \E i \in DOMAIN doc[m].children : doc[m].children[i] = n
    ELSE 0

\* The nearest proper ancestor of n that has a non-empty id; 0 when none has
RECURSIVE NearestIdAncestor(_, _)
NearestIdAncestor(doc, n) ==
    LET m == ParentOf(doc, n)
    IN  IF m = 0 THEN 0
        ELSE IF HasId(doc[m]) THEN m
        ELSE NearestIdAncestor(doc, m)

\* Positions of a list of info dicts
WithId(es) == {i \in 1..Len(es) : HasId(es[i])}
WithClass(es) == {i \in 1..Len(es) : es[i].classes # <<>>}
Carrying(es, c) ==
    {i \in WithId(es) : \E k \in 1..Len(es[i].classes) : es[i].classes[k] = c}

StrictlyAscending(list) ==
    \A i, j \in 1..Len(list) : i < j => StrLess(list[i], list[j])

----------------------------------------------------------------------------
(* C1: when walk_svg_groups has returned, byId[id] is, for every recorded  *)
(* group with a non-empty id, the last recorded group with that id; the    *)
(* earlier groups with the id are still in elements; and byId has no other *)
(* key than the non-empty ids of the recorded groups.                      *)

ByIdIsLastOf(r, doc) ==
    /\ DOMAIN r.byId = {r.elements[i].id : i \in WithId(r.elements)}
    /\ \A i \in WithId(r.elements) :
          LET same == {j \in 1..Len(r.elements) : r.elements[j].id = r.elements[i].id}
          IN  /\ r.byId[r.elements[i].id] \in same
              /\ \A j \in same : j <= r.byId[r.elements[i].id]
              /\ Cardinality(same) =
                 Cardinality({k \in 1..Len(GroupNodes(doc)) :
                                doc[GroupNodes(doc)[k]].id = r.elements[i].id})

C1_ByIdLastWins ==
    \A p \in Pipes : ppc[p] = "indexed" => ByIdIsLastOf(result[p], root[p])

C1_Witness ==
    \E p \in Pipes :
       /\ ppc[p] = "indexed"
       /\ \E i, j \in 1..Len(result[p].elements) :
             /\ i < j
             /\ HasId(result[p].elements[i])
             /\ result[p].elements[i].id = result[p].elements[j].id
             /\ result[p].elements[i] # result[p].elements[j]
             /\ result[p].byId[result[p].elements[i].id] = j

(* C2: the parentId of a recorded group is the id of its nearest proper    *)
(* ancestor, of any tag, that has a non-empty id, and None when no proper  *)
(* ancestor has one.                                                       *)

ExpectedParentId(doc, n) ==
    IF NearestIdAncestor(doc, n) = 0 THEN None
    ELSE doc[NearestIdAncestor(doc, n)].id

C2_ParentIdIsNearestIdentifiedAncestor ==
    \A p \in Pipes :
       ppc[p] \in {"rec", "finalize", "indexed"} =>
          /\ Len(elements[p]) <= Len(GroupNodes(root[p]))
          /\ \A i \in 1..Len(elements[p]) :
                elements[p][i].parentId = ExpectedParentId(root[p], GroupNodes(root[p])[i])

\* <g id=A><g><g/></g></g>: the innermost group skips its unidentified parent
C2_Witness ==
    \E p \in Pipes :
       /\ ppc[p] = "indexed"
       /\ \E i \in 1..Len(elements[p]) :
             LET n == GroupNodes(root[p])[i]
                 m == ParentOf(root[p], n)
             IN  /\ m # 0
                 /\ HasGroupTag(root[p][m].tag)
                 /\ ~HasId(root[p][m])
                 /\ elements[p][i].parentId # None
                 /\ elements[p][i].parentId = root[p][ParentOf(root[p], m)].id

(* C3: elements is the list of the nodes whose namespace-stripped tag is   *)
(* g, each once, in depth-first pre-order; during the walk it is a prefix  *)
(* of that list.                                                           *)

IsInfoOf(info, node) ==
    /\ info.tag = <<"g">>
    /\ info.id = node.id
    /\ info.classes = Classes(node.class)

ElementsAreGroupsInPreOrder(es, doc, complete) ==
    /\ Len(es) <= Len(GroupNodes(doc))
    /\ complete => Len(es) = Len(GroupNodes(doc))
    /\ \A i \in 1..Len(es) : IsInfoOf(es[i], doc[GroupNodes(doc)[i]])

C3_ElementsAreGroupsInPreOrder ==
    \A p \in Pipes :
       /\ ppc[p] \in {"rec", "finalize"} =>
             ElementsAreGroupsInPreOrder(elements[p], root[p], ppc[p] = "finalize")
       /\ ppc[p] = "indexed" =>
             ElementsAreGroupsInPreOrder(result[p].elements, root[p], TRUE)

\* a group under a node that is no group and has no id, after an earlier
\* sibling subtree, and a node that is not recorded
C3_Witness ==
    \E p \in Pipes :
       /\ ppc[p] = "indexed"
       /\ Len(result[p].elements) >= 2
       /\ Len(result[p].elements) < Len(root[p])
       /\ \E n \in DOMAIN root[p] :
             /\ HasGroupTag(root[p][n].tag)
             /\ ParentOf(root[p], n) # 0
             /\ ~HasGroupTag(root[p][ParentOf(root[p], n)].tag)
             /\ ~HasId(root[p][ParentOf(root[p], n)])

(* C4: at every step of the walk and in the returned index, total and      *)
(* groups are the length of elements, with_id is the number of recorded    *)
(* groups with a non-empty id and with_class the number with at least one  *)
(* class token.                                                            *)

CountsMatch(c, es) ==
    /\ c.total = Len(es)
    /\ c.groups = Len(es)
    /\ c.with_id = Cardinality(WithId(es))
    /\ c.with_class = Cardinality(WithClass(es))

C4_CountsMatchElements ==
    \A p \in Pipes :
       /\ CountsMatch(counts[p], elements[p])
       /\ ppc[p] = "indexed" => CountsMatch(result[p].counts, result[p].elements)

\* a group whose id is the empty string and a group with classes and no id
C4_Witness ==
    \E p \in Pipes :
       /\ ppc[p] = "rec"
       /\ \E i, j \in 1..Len(elements[p]) :
             /\ elements[p][i].id = <<>>
             /\ elements[p][i].classes # <<>>
             /\ elements[p][j].id = None
             /\ elements[p][j].classes # <<>>
       /\ counts[p].with_id < counts[p].with_class

(* C5: classToIds is the reverse class index of the recorded groups that   *)
(* have a non-empty id: its keys are the class tokens such groups carry,   *)
(* sorted and without duplicates; id i is listed under class c exactly     *)
(* when a recorded group with id i carries c, also when a later group with *)
(* the same id took its byId entry; every list is sorted and without       *)
(* duplicates.                                                             *)

ClassToIdsIsReverseIndex(r) ==
    LET keys == [k \in 1..Len(r.classToIds) |-> r.classToIds[k].key]
    IN  /\ StrictlyAscending(keys)
        /\ {keys[k] : k \in 1..Len(keys)} =
           UNION {SetOfTokens(r.elements[i].classes) : i \in WithId(r.elements)}
        /\ \A k \in 1..Len(keys) :
              /\ StrictlyAscending(r.classToIds[k].ids)
              /\ {r.classToIds[k].ids[m] : m \in 1..Len(r.classToIds[k].ids)} =
                 {r.elements[i].id : i \in Carrying(r.elements, keys[k])}

C5_ClassToIdsIsReverseIndex ==
    \A p \in Pipes : ppc[p] = "indexed" => ClassToIdsIsReverseIndex(result[p])

\* a class listed for an id whose byId entry does not carry it, and a
\* group with classes and no id
C5_Witness ==
    \E p \in Pipes :
       /\ ppc[p] = "indexed"
       /\ \E k \in 1..Len(result[p].classToIds) :
             \E m \in 1..Len(result[p].classToIds[k].ids) :
                LET id == result[p].classToIds[k].ids[m]
                IN  result[p].classToIds[k].key \notin
                       SetOfTokens(result[p].elements[result[p].byId[id]].classes)
       /\ \E i \in 1..Len(result[p].elements) :
             ~HasId(result[p].elements[i]) /\ result[p].elements[i].classes # <<>>

(* C6: main writes the output file only after both documents are loaded    *)
(* and indexed; when an input is missing or malformed the run ends with    *)
(* exit code 2 and the output file is neither created nor modified; a run  *)
(* that exits 0 has written one combined file with the front and back      *)
(* keys.                                                                   *)

Bad(p) == file[p].state # "ok"
SomeBad == \E p \in Pipes : Bad(p)

OutputUntouched == outfile.state \in {"absent", "old"}

C6_State ==
    /\ ~OutputUntouched => (\A p \in Pipes : ppc[p] = "indexed" /\ ~Bad(p))
    /\ SomeBad /\ exited => exit_code = 2
    /\ SomeBad /\ ~exited => ENABLED NextMain
    /\ exited /\ exit_code = 0 =>
          /\ outfile.state = "written"
          /\ Cardinality(outfile.data) = 1
          /\ \A c \in outfile.data :
                /\ DOMAIN c = {"front", "back"}
                /\ \A p \in Pipes : ppc[p] = "indexed" /\ c[p] = result[p]

C6_Step == SomeBad => outfile' = outfile

C6_OutputOnlyAfterBothIndexed == [](C6_State) /\ [][C6_Step]_vars

\* the back document is malformed after the front one was loaded: exit
\* code 2, and the old output file is still there
C6_Witness ==
    /\ exited
    /\ exit_code = 2
    /\ ~Bad("front")
    /\ file["back"].state = "malformed"
    /\ ppc["front"] = "walk"
    /\ outfile = OldOutput

(* C7: with a hint 'front' or 'back' parse_svg returns the hint whatever   *)
(* the file name; with no hint it returns 'back' exactly when the          *)
(* lower-cased base name of the path contains 'back' or 'posterior', and   *)
(* 'front' otherwise; every element recorded from the document carries     *)
(* that side.                                                              *)

\* s is what follows the last slash of p_path
IsBaseNameOf(s, p_path) ==
    /\ Len(s) <= Len(p_path)
    /\ s = SubSeq(p_path, Len(p_path) - Len(s) + 1, Len(p_path))
    /\ \A i \in 1..Len(s) : s[i] # "/"
    /\ Len(s) < Len(p_path) => p_path[Len(p_path) - Len(s)] = "/"

BackLooking(p_path) ==
    \E k \in 0..Len(p_path) :
       LET s == SubSeq(p_path, Len(p_path) - k + 1, Len(p_path))
       IN  /\ IsBaseNameOf(s, p_path)
           /\ contains(lower(s), <<"b", "a", "c", "k">>)
              \/ contains(lower(s), <<"p", "o", "s", "t", "e", "r", "i", "o", "r">>)

C7_SideResolution ==
    \A p \in Pipes :
       ppc[p] # "parse" =>
          /\ side_hint[p] \in Sides => side_label[p] = side_hint[p]
          /\ side_hint[p] = None =>
                side_label[p] = IF BackLooking(path[p]) THEN BACK ELSE FRONT
          /\ \A i \in 1..Len(elements[p]) : elements[p][i].side = side_label[p]
          /\ \A i \in 1..Len(result[p].elements) :
                result[p].elements[i].side = side_label[p]

\* the hint 'back' on a path whose name says front, and the elements of
\* the returned index carry 'back'
C7_Witness ==
    \E p \in Pipes :
       /\ ppc[p] = "indexed"
       /\ side_hint[p] = BACK
       /\ ~BackLooking(path[p])
       /\ Len(result[p].elements) >= 1
       /\ \A i \in 1..Len(result[p].elements) : result[p].elements[i].side = BACK

(* C8: classes is the class attribute split on whitespace, newlines and    *)
(* tabs included, without empty tokens: no token holds a whitespace        *)
(* character, and an absent or all-whitespace attribute gives no token.    *)

Whitespace == {SP, NL, TAB}

C8_ClassesSplitOnWhitespace ==
    fn = "classes" /\ returned =>
       /\ \A k \in 1..Len(ret) :
             /\ ret[k] # <<>>
             /\ \A i \in 1..Len(ret[k]) : ret[k][i] \notin Whitespace
       /\ (arg = None \/ \A i \in 1..Len(arg) : arg[i] \in Whitespace) => ret = <<>>

(* C9: the front and the back pipeline share nothing: in whatever order    *)
(* their load and walk steps run, the run ends with the same combined      *)
(* index, the same exit status and the same diagnostics, and an id that    *)
(* occurs in both documents changes nothing in the other document's index. *)

ExpectedSide(p) == IF p = "front" THEN FRONT ELSE BACK

\* r is the index of doc: C1 to C5, and the side
IsIndexOf(r, doc, side) ==
    /\ ElementsAreGroupsInPreOrder(r.elements, doc, TRUE)
    /\ \A i \in 1..Len(r.elements) :
          /\ r.elements[i].parentId = ExpectedParentId(doc, GroupNodes(doc)[i])
          /\ r.elements[i].side = side
    /\ ByIdIsLastOf(r, doc)
    /\ CountsMatch(r.counts, r.elements)
    /\ ClassToIdsIsReverseIndex(r)

DiagnosticOf(p) ==
    [kind |-> IF file[p].state = "missing" THEN "file not found" ELSE "failed to parse",
     path |-> path[p]]

\* what main prints on stderr: the first bad document in its order
DiagnosticsOfMain ==
    IF Bad("front") THEN <<DiagnosticOf("front")>>
    ELSE IF Bad("back") THEN <<DiagnosticOf("back")>>
    ELSE <<>>

IndicesIndependent ==
    \A p \in Pipes :
       ppc[p] = "indexed" => IsIndexOf(result[p], file[p].doc, ExpectedSide(p))

OutcomeButDiagnostics ==
    exited =>
       IF SomeBad
       THEN exit_code = 2 /\ OutputUntouched /\ stdout = <<>> /\ Len(stderr) = 1
       ELSE /\ exit_code \in {0, 1}
            /\ exit_code = 0 =>
                  /\ stderr = <<>>
                  /\ outfile.state = "written"
                  /\ \A c \in outfile.data :
                        \A p \in Pipes : IsIndexOf(c[p], file[p].doc, ExpectedSide(p))
                  /\ Len(stdout) = 5
                  /\ stdout[2].value = {result["front"].counts}
                  /\ stdout[3].value = {result["back"].counts}
            /\ exit_code = 1 => stdout = <<>> /\ outfile.state # "written"

\* C9 as claimed: the diagnostics too are those of main's order, in every
\* order
C9_SameOutcomeInAnyOrder ==
    /\ IndicesIndependent
    /\ OutcomeButDiagnostics
    /\ exited /\ SomeBad => stderr = DiagnosticsOfMain

\* C9, amended: the index and the exit status are the same in every order;
\* the diagnostics are those of main's order unless both documents are bad,
\* and then the one diagnostic names the document that was loaded first
C9_SameOutcomeButFirstDiagnostic ==
    /\ IndicesIndependent
    /\ OutcomeButDiagnostics
    /\ exited /\ SomeBad =>
          IF \A p \in Pipes : Bad(p)
          THEN \E p \in Pipes : stderr = <<DiagnosticOf(p)>>
          ELSE stderr = DiagnosticsOfMain

\* both documents are bad and the back one was loaded first
C9_Witness ==
    /\ exited
    /\ file["front"].state = "missing"
    /\ file["back"].state = "malformed"
    /\ stderr = <<DiagnosticOf("back")>>

(* C10: strip_ns never raises: it returns what follows the first closing   *)
(* brace when the tag starts with an opening brace, and the tag itself     *)
(* otherwise.                                                              *)

C10_StripNsNeverRaises ==
    fn = "strip_ns" /\ returned =>
       /\ ret # IndexError
       /\ (arg = <<>> \/ arg[1] # "{") => ret = arg
       /\ (arg # <<>> /\ arg[1] = "{") =>
             \E i \in 1..Len(arg) :
                /\ arg[i] = "}"
                /\ \A j \in 1..(i - 1) : arg[j] # "}"
                /\ ret = SubSeq(arg, i + 1, Len(arg))

====
